---- MODULE Spec2Model ----
(***************************************************************************)
(* Quarter-over-quarter position-change classification of 13F holdings.   *)
(*                                                                         *)
(* Three scripts of the repository compare the Q1 2025 holdings file with  *)
(* the Q4 2024 holdings file:                                              *)
(*   analyze_buys_sells_increases.py   analyze_buys_sells_increases        *)
(*   create_master_analysis.py         perform_position_changes_analysis   *)
(*   create_final_enhanced_master.py   perform_enhanced_position_changes_  *)
(*                                     analysis                            *)
(* Each builds a dict per quarter keyed by "fund_name||company" and then   *)
(* derives the lists of new buys, exits, increases and (first script only) *)
(* decreases.                                                              *)
(*                                                                         *)
(* Strings that the code concatenates are sequences of one-character       *)
(* strings; a Python dict is the sequence of its entries in insertion      *)
(* order; a float ratio is the pair of its numerator and denominator.      *)
(***************************************************************************)
EXTENDS Integers, Sequences, FiniteSets, TLC

\* ------------------------------------------------------------------ bounds

\* Rows in the two holdings files together.
MaxRows == 3

\* ------------------------------------------------------------ input domain

\* fund_name column: names of the fund table (none contains '|').
FundNames == { <<"A">>, <<"B">> }

\* company column.
Companies == { <<"X">>, <<"Y">> }

\* The (fund_name, company) pairs that occur on file: two funds holding the
\* same company, and one fund holding two companies.
Holdings == { <<f, c>> \in FundNames \X Companies : ~(f = <<"B">> /\ c = <<"Y">>) }

\* value column of the Q4 2024 (prior) file and of the Q1 2025 (current) file.
PriorValues == { 0, 100 }
CurrentValues == { 0, 50, 100, 150, 160 }

Ticker(company) == IF company = <<"X">> THEN "XT" ELSE "YT"

\* One row of a holdings file, as DataFrame.iterrows() yields it.
Row(f, c, v) ==
    [ fund_name |-> f, company |-> c, ticker |-> Ticker(c),
      shares |-> v \div 10, value |-> v, industry |-> "Biotechnology" ]

PriorRows == { Row(h[1], h[2], v) : h \in Holdings, v \in PriorValues }
CurrentRows == { Row(h[1], h[2], v) : h \in Holdings, v \in CurrentValues }

\* ------------------------------------------------------------------- state

VARIABLES
    q1_2025,            \* rows of ALL_HEDGE_FUNDS_13F_Q1_2025.csv (current)
    q4_2024,            \* rows of ALL_HEDGE_FUNDS_13F_Q4_2024.csv (prior)
    script,             \* which entry point is running
    pc,                 \* its position: "start", "indexed", "classified",
                        \* "aggregated"
    q1_positions,       \* dict key -> position of the current quarter
    q4_positions,       \* dict key -> position of the prior quarter
    new_buys,           \* Opened
    position_exits,     \* Closed
    position_increases, \* Increased
    position_decreases, \* Decreased
    new_buys_detailed,  \* per-company aggregates of new_buys
    increases_detailed, \* per-company aggregates of position_increases
    exits_detailed,     \* per-company aggregates of position_exits
    decreases_detailed, \* per-company aggregates of position_decreases
    csv_file,           \* the file handed to CSV13FAnalyzer.parse_csv_file
    lpc,                \* parse_csv_file: "idle", "rows", "returned"
    matched_columns,    \* role -> index of the matched column, 0 if none
    row_i,              \* the row the loop of parse_csv_file is at
    holdings_count,     \* its local counter
    holdings_data,      \* self.holdings_data
    returned,           \* what parse_csv_file returned to its caller
    pending,            \* process_all_csv_files: the files still to parse
    total_processed,    \* process_all_csv_files: its running total
    fscript,            \* which fetch script is running
    fpc,                \* its position: "idle", "loop", "returned"
    fund_i,             \* the fund of hedge_funds the loop is at
    all_holdings,       \* the rows fetched so far
    successful_funds,   \* (fund_name, holdings_count, total_value) entries
    responses,          \* what the API answered, one entry per request
    events,             \* the requests and sleeps performed, in order
    new_buys_keys,      \* analyze_new_buys_sells: new_buys, a set of keys
    new_sells_keys      \* analyze_new_buys_sells: new_sells, a set of keys

aggVars == << new_buys_detailed, increases_detailed, exits_detailed,
              decreases_detailed >>

classVars == << q1_2025, q4_2024, script, pc, q1_positions, q4_positions,
                new_buys, position_exits, position_increases,
                position_decreases >>

loaderVars == << csv_file, lpc, matched_columns, row_i, holdings_count,
                 holdings_data, returned >>

batchVars == << pending, total_processed >>

fetchVars == << fscript, fpc, fund_i, all_holdings, successful_funds,
                responses, events >>

diffVars == << new_buys_keys, new_sells_keys >>

vars == << classVars, aggVars, loaderVars, batchVars, fetchVars, diffVars >>

\* ------------------------------------------------------------ Python dicts

DictHas(d, k) == \E i \in DOMAIN d : d[i].key = k

DictIndex(d, k) == CHOOSE i \in DOMAIN d : d[i].key = k

DictGet(d, k) == d[DictIndex(d, k)].val

\* Slip: an existing key keeps its first value (setdefault instead of assignment).
DictSet_FirstWins(d, k, v) ==
    IF DictHas(d, k) THEN d ELSE Append(d, [key |-> k, val |-> v])

\* d[k] = v: an existing key keeps its place and takes the new value.
DictSet(d, k, v) ==
    IF DictHas(d, k)
    THEN [d EXCEPT ![DictIndex(d, k)] = [key |-> k, val |-> v]]
    ELSE Append(d, [key |-> k, val |-> v])

\* ------------------------------------------------------------- classifier

\* f"{row['fund_name']}||{row['company']}"
create_position_key(row) == row.fund_name \o <<"|", "|">> \o row.company

PositionOf(row) ==
    [ value |-> row.value, shares |-> row.shares, company |-> row.company,
      ticker |-> row.ticker, fund_name |-> row.fund_name,
      industry |-> row.industry ]

RECURSIVE BuildFrom(_, _, _)
BuildFrom(df, i, d) ==
    IF i > Len(df) THEN d
    ELSE BuildFrom(df, i + 1,
                   DictSet(d, create_position_key(df[i]), PositionOf(df[i])))

\* for _, row in df.iterrows(): positions[key] = {...}
BuildPositions(df) == BuildFrom(df, 1, << >>)

Vals(entries) == [i \in DOMAIN entries |-> entries[i].val]

\* Slip: the membership test is left out.
NewBuys_NoAbsenceCheck(q1p, q4p) == Vals(q1p)

\* Slip: the membership test is inverted.
NewBuys_Inverted(q1p, q4p) ==
    Vals(SelectSeq(q1p, LAMBDA e : DictHas(q4p, e.key)))

\* for key in q1_positions: if key not in q4_positions: new_buys.append(...)
NewBuys(q1p, q4p) ==
    Vals(SelectSeq(q1p, LAMBDA e : ~DictHas(q4p, e.key)))

\* Slip: the key is looked up in the dict that is being iterated.
PositionExits_WrongDict(q1p, q4p) ==
    Vals(SelectSeq(q4p, LAMBDA e : ~DictHas(q4p, e.key)))

\* for key in q4_positions: if key not in q1_positions: position_exits.append(...)
PositionExits(q1p, q4p) ==
    Vals(SelectSeq(q4p, LAMBDA e : ~DictHas(q1p, e.key)))

\* The materiality threshold 0.5 as ThresholdNum / ThresholdDen.
ThresholdNum == 1
ThresholdDen == 2

\* (q1_value - q4_value) / q4_value, for q4_value > 0
PctChange(q1_value, q4_value) == [num |-> q1_value - q4_value, den |-> q4_value]

\* Slip: pct_change >= 0.5
AboveThreshold_Inclusive(pct) == pct.num * ThresholdDen >= ThresholdNum * pct.den

\* pct_change > 0.5
AboveThreshold(pct) == pct.num * ThresholdDen > ThresholdNum * pct.den

\* Slip: the minus sign is lost, pct_change < 0.5
BelowNegThreshold_SignLost(pct) == pct.num * ThresholdDen < ThresholdNum * pct.den

\* pct_change < -0.5
BelowNegThreshold(pct) == pct.num * ThresholdDen < (0 - ThresholdNum) * pct.den

\* Slip: dollar_change is taken as q4_value - q1_value.
ChangeData_Reversed(base, q1_value, q4_value) ==
    [ value |-> base.value, shares |-> base.shares, company |-> base.company,
      ticker |-> base.ticker, fund_name |-> base.fund_name,
      industry |-> base.industry,
      q4_value |-> q4_value, q1_value |-> q1_value,
      pct_change |-> PctChange(q1_value, q4_value),
      dollar_change |-> q4_value - q1_value ]

\* The record appended to position_increases / position_decreases.
ChangeData(base, q1_value, q4_value) ==
    [ value |-> base.value, shares |-> base.shares, company |-> base.company,
      ticker |-> base.ticker, fund_name |-> base.fund_name,
      industry |-> base.industry,
      q4_value |-> q4_value, q1_value |-> q1_value,
      pct_change |-> PctChange(q1_value, q4_value),
      dollar_change |-> q1_value - q4_value ]

\* Slip: the q4_value > 0 guard is left out (numpy division by zero gives
\* inf, which is above any threshold, and 0/0 gives nan, which is not).
IsIncrease_NoGuard(e, q4p) ==
    /\ DictHas(q4p, e.key)
    /\ AboveThreshold(PctChange(e.val.value, DictGet(q4p, e.key).value))

\* if key in q4_positions: if q4_value > 0: if pct_change > 0.5
IsIncrease(e, q4p) ==
    /\ DictHas(q4p, e.key)
    /\ DictGet(q4p, e.key).value > 0
    /\ AboveThreshold(PctChange(e.val.value, DictGet(q4p, e.key).value))

IsDecrease(e, q4p) ==
    /\ DictHas(q4p, e.key)
    /\ DictGet(q4p, e.key).value > 0
    /\ ~AboveThreshold(PctChange(e.val.value, DictGet(q4p, e.key).value))
    /\ BelowNegThreshold(PctChange(e.val.value, DictGet(q4p, e.key).value))

\* increase_data = q1_positions[key].copy() plus the change fields
PositionIncreases(q1p, q4p) ==
    LET hit == SelectSeq(q1p, LAMBDA e : IsIncrease(e, q4p))
    IN  [i \in DOMAIN hit |->
            ChangeData(hit[i].val, hit[i].val.value, DictGet(q4p, hit[i].key).value)]

\* Slip: the decrease record is copied from the current position.
PositionDecreases_FromCurrent(q1p, q4p) ==
    LET hit == SelectSeq(q1p, LAMBDA e : IsDecrease(e, q4p))
    IN  [i \in DOMAIN hit |->
            ChangeData(hit[i].val, hit[i].val.value,
                       DictGet(q4p, hit[i].key).value)]

\* decrease_data = q4_positions[key].copy() plus the change fields
PositionDecreases(q1p, q4p) ==
    LET hit == SelectSeq(q1p, LAMBDA e : IsDecrease(e, q4p))
    IN  [i \in DOMAIN hit |->
            ChangeData(DictGet(q4p, hit[i].key), hit[i].val.value,
                       DictGet(q4p, hit[i].key).value)]

\* ------------------------------------------------------------- aggregates

\* Exact ratios a / b (b > 0) stand for the floats of the code.
Ratio(a, b) == [num |-> a, den |-> b]

RatAdd(x, y) == [num |-> x.num * y.den + y.num * x.den, den |-> x.den * y.den]

Min(a, b) == IF a <= b THEN a ELSE b

\* seq[:n]
Take(seq, n) == SubSeq(seq, 1, Min(n, Len(seq)))

\* The ordered pairs of elements of a sequence.
Pairs(seq) == { seq[i] : i \in DOMAIN seq } \X { seq[i] : i \in DOMAIN seq }

\* sorted(seq, key=..., reverse=True), before[<<x, y>>] meaning
\* key(x) > key(y): a stable sort, so elements of equal key keep their order.
SortedDesc(seq, before) ==
    LET Insert(out, x) ==
            LET later == { j \in DOMAIN out : before[<< x, out[j] >>] }
                at == IF later = {} THEN Len(out) + 1
                      ELSE CHOOSE j \in later : \A l \in later : j <= l
            IN  SubSeq(out, 1, at - 1) \o << x >> \o SubSeq(out, at, Len(out))
        sorted[i \in 0..Len(seq)] ==
            IF i = 0 THEN << >> ELSE Insert(sorted[i - 1], seq[i])
    IN  sorted[Len(seq)]

\* Counter(pos['company'] for pos in positions): the companies in order of
\* first occurrence, each with the number of its positions.
RECURSIVE CounterFrom(_, _, _)
CounterFrom(positions, i, c) ==
    IF i > Len(positions) THEN c
    ELSE LET k == positions[i].company
         IN  CounterFrom(positions, i + 1,
                         DictSet(c, k, IF DictHas(c, k) THEN DictGet(c, k) + 1 ELSE 1))

CompanyCounter(positions) == CounterFrom(positions, 1, << >>)

\* Counter.most_common(n): by count, largest first, ties in insertion order.
MostCommon(counter, n) ==
    Take(SortedDesc(counter, [p \in Pairs(counter) |-> p[1].val > p[2].val]), n)

\* Slip: the positions are not filtered by company.
CompanyPositions_All(positions, company) == positions

\* [pos for pos in positions if pos['company'] == company]
CompanyPositions(positions, company) ==
    SelectSeq(positions, LAMBDA pos : pos.company = company)

\* sum(pos['value'] for pos in positions)
RECURSIVE SumValue(_)
SumValue(positions) ==
    IF positions = << >> THEN 0
    ELSE positions[1].value + SumValue(Tail(positions))

\* sum(pos['dollar_change'] for pos in positions)
RECURSIVE SumDollarChange(_)
SumDollarChange(positions) ==
    IF positions = << >> THEN 0
    ELSE positions[1].dollar_change + SumDollarChange(Tail(positions))

\* sum(pos['pct_change'] for pos in positions)
RECURSIVE SumPctChange(_)
SumPctChange(positions) ==
    IF positions = << >> THEN Ratio(0, 1)
    ELSE RatAdd(positions[1].pct_change, SumPctChange(Tail(positions)))

\* x / n for a ratio x
RatOver(x, n) == [num |-> x.num, den |-> x.den * n]

\* The rows of the top-30 table of analyze_buys_sells_increases.
TopDetailed == 30

\* One detail of create_detailed_analysis.
DetailOf(positions, company, count, category_name) ==
    LET company_positions == CompanyPositions(positions, company)
        total_value == SumValue(company_positions)
        sample_pos == company_positions[1]
        common ==
            [ company |-> company, ticker |-> sample_pos.ticker,
              funds_count |-> count, total_value |-> total_value,
              avg_position_size |-> Ratio(total_value, Len(company_positions)),
              industry |-> sample_pos.industry ]
    IN  IF category_name = "increases"
        THEN [ company |-> common.company, ticker |-> common.ticker,
               funds_count |-> common.funds_count,
               total_value |-> common.total_value,
               avg_position_size |-> common.avg_position_size,
               industry |-> common.industry,
               avg_pct_increase |->
                   RatOver(SumPctChange(company_positions), Len(company_positions)),
               total_dollar_increase |-> SumDollarChange(company_positions) ]
        ELSE common

\* create_detailed_analysis(positions, company_counter, category_name)
create_detailed_analysis(positions, company_counter, category_name) ==
    LET top == MostCommon(company_counter, TopDetailed)
    IN  [i \in DOMAIN top |->
            DetailOf(positions, top[i].key, top[i].val, category_name)]

\* Code points of the characters of fund names, for sorted(funds).
CharCode(c) == CASE c = "A" -> 65 [] c = "B" -> 66 [] OTHER -> 0

RECURSIVE NameLess(_, _)
NameLess(a, b) ==
    IF a = << >> THEN b # << >>
    ELSE IF b = << >> THEN FALSE
    ELSE IF CharCode(a[1]) # CharCode(b[1]) THEN CharCode(a[1]) < CharCode(b[1])
    ELSE NameLess(Tail(a), Tail(b))

\* sorted(funds): ascending, which is descending under the reversed order.
SortedNames(funds) ==
    SortedDesc(funds, [p \in Pairs(funds) |-> NameLess(p[1], p[2])])

\* The rows kept by create_enhanced_summary.
TopEnhanced == 25

\* One detail of create_enhanced_summary.
EnhancedDetailOf(positions, company, category_name) ==
    LET group == CompanyPositions(positions, company)
        funds == [i \in DOMAIN group |-> group[i].fund_name]
        fund_count == Len(funds)
        total_value == SumValue(group)
        sample_pos == group[1]
    IN  IF category_name = "increases"
        THEN [ company |-> company, ticker |-> sample_pos.ticker,
               funds_count |-> fund_count, fund_names |-> SortedNames(funds),
               total_value |-> total_value,
               avg_position_size |-> Ratio(total_value, fund_count),
               industry |-> sample_pos.industry,
               avg_pct_increase |-> RatOver(SumPctChange(group), Len(group)),
               total_dollar_increase |-> SumDollarChange(group) ]
        ELSE [ company |-> company, ticker |-> sample_pos.ticker,
               funds_count |-> fund_count, fund_names |-> SortedNames(funds),
               total_value |-> total_value,
               avg_position_size |-> Ratio(total_value, fund_count),
               industry |-> sample_pos.industry ]

\* Slip: the sort key is funds_count alone.
EnhancedBefore_CountOnly(x, y) == x.funds_count > y.funds_count

\* x sorts before y under key (funds_count, total_value), reverse=True
EnhancedBefore(x, y) ==
    \/ x.funds_count > y.funds_count
    \/ x.funds_count = y.funds_count /\ x.total_value > y.total_value

\* create_enhanced_summary(positions, category_name)
create_enhanced_summary(positions, category_name) ==
    LET companies == CompanyCounter(positions)
        detailed == [i \in DOMAIN companies |->
                        EnhancedDetailOf(positions, companies[i].key, category_name)]
    IN  Take(SortedDesc(detailed,
                        [p \in Pairs(detailed) |-> EnhancedBefore(p[1], p[2])]),
             TopEnhanced)

\* --------------------------------------------------- analyze_new_buys_sells

\* set(df.apply(create_position_key, axis=1))
PositionKeySet(df) == { create_position_key(df[i]) : i \in DOMAIN df }

\* Slip: the difference is taken the other way round.
new_buys_set_Swapped(q1, q4) == PositionKeySet(q4) \ PositionKeySet(q1)

\* new_buys = q1_positions - q4_positions
new_buys_set(q1, q4) == PositionKeySet(q1) \ PositionKeySet(q4)

\* new_sells = q4_positions - q1_positions
new_sells_set(q1, q4) == PositionKeySet(q4) \ PositionKeySet(q1)

\* ------------------------------------------------------------- fetch scripts

\* Funds of the table that are fetched.
MaxFunds == 2

\* The names of hedge_funds, in the order of the dict.
AllFunds ==
    << "Avoro Capital Advisors LLC", "Baker Bros. Advisors LP", "BVF Inc",
       "Checkpoint Capital L.P.", "Commodore Capital LP",
       "Cormorant Asset Management, LP", "Darwin Global Management, Ltd.",
       "Frazier Life Sciences Management, L.P.", "Logos Global Management LP",
       "Lynx1 Capital Management LP", "Paradigm Biocapital Advisors LP",
       "Perceptive Advisors LLC", "Ra Capital Management, L.P.",
       "Rock Springs Capital Management LP", "Rtw Investments, LP",
       "Vivo Capital, LLC" >>

\* The table, cut to its first MaxFunds funds.
hedge_funds == SubSeq(AllFunds, 1, MaxFunds)

\* An item of the JSON list: a dict with a numeric marketValue, a dict
\* without marketValue, a dict whose marketValue is null, or not a dict.
DictItem(name, v) ==
    [ kind |-> "dict", securityName |-> name, mv |-> "num", marketValue |-> v ]
DictNoValue(name) ==
    [ kind |-> "dict", securityName |-> name, mv |-> "missing", marketValue |-> 0 ]
DictNullValue(name) ==
    [ kind |-> "dict", securityName |-> name, mv |-> "null", marketValue |-> 0 ]
OtherItem ==
    [ kind |-> "other", securityName |-> "", mv |-> "missing", marketValue |-> 0 ]

\* What one request meets: requests.get raises, a status other than 200,
\* a body that is not JSON, or status 200 with JSON data.
Response(kind, is_list, items) ==
    [ kind |-> kind, is_list |-> is_list, items |-> items ]

ItemLists ==
    { << >>,
      << DictItem("S1", 100) >>,
      << DictItem("S1", 100), DictItem("S2", 200) >>,
      << DictItem("S1", 200), DictItem("S2", 100) >>,
      << DictNoValue("S1") >>,
      << OtherItem >>,
      << DictItem("S1", 100), OtherItem >>,
      << DictNullValue("S1") >>,
      << DictItem("S1", 100), DictNullValue("S2") >> }

Responses ==
    { Response("raises", FALSE, << >>), Response("failed", FALSE, << >>),
      Response("badjson", FALSE, << >>), Response("ok", FALSE, << >>) }
      \cup { Response("ok", TRUE, items) : items \in ItemLists }

\* holding = {'fund_name': fund_name, ..., 'value': item.get('marketValue', 0)}
HoldingOf(fund_name, item) ==
    [ fund_name |-> fund_name, company |-> item.securityName,
      value |-> item.marketValue ]

\* for item in data: the dict items become holdings and their values are
\* summed; total_value += None raises.
RECURSIVE ProcessItems(_, _, _, _, _)
ProcessItems(fund_name, items, i, fund_holdings, total_value) ==
    IF i > Len(items)
    THEN [ raised |-> FALSE, fund_holdings |-> fund_holdings,
           total_value |-> total_value ]
    ELSE IF items[i].kind # "dict"
    THEN ProcessItems(fund_name, items, i + 1, fund_holdings, total_value)
    ELSE IF items[i].mv = "null"
    THEN [ raised |-> TRUE, fund_holdings |-> << >>, total_value |-> 0 ]
    ELSE ProcessItems(fund_name, items, i + 1,
                      Append(fund_holdings, HoldingOf(fund_name, items[i])),
                      total_value + items[i].marketValue)

\* fund_holdings.sort(key=lambda x: x['value'], reverse=True)
SortByValue(fund_holdings) ==
    SortedDesc(fund_holdings,
               [p \in Pairs(fund_holdings) |-> p[1].value > p[2].value])

\* The print of the top holding: get_q4_2024_data guards it with
\* 'if fund_holdings', all_funds_scraper does not and fund_holdings[0]
\* raises IndexError on an empty list.
TopHoldingRaises(name, fund_holdings) ==
    name = "all_funds_scraper" /\ fund_holdings = << >>

\* One pass of the loop body for a fund and the response it meets: the rows
\* added to all_holdings, the entries added to successful_funds, whether the
\* except clause ran, and whether time.sleep(1) was reached.
FetchOne(name, fund_name, response) ==
    IF response.kind \in { "raises", "badjson" }
    THEN [ rows |-> << >>, entries |-> << >>, raised |-> TRUE, slept |-> FALSE ]
    ELSE IF response.kind = "failed" \/ ~response.is_list \/ response.items = << >>
    THEN [ rows |-> << >>, entries |-> << >>, raised |-> FALSE, slept |-> TRUE ]
    ELSE LET done == ProcessItems(fund_name, response.items, 1, << >>, 0)
             fund_holdings == SortByValue(done.fund_holdings)
         IN  IF done.raised
             THEN [ rows |-> << >>, entries |-> << >>, raised |-> TRUE,
                    slept |-> FALSE ]
             ELSE [ rows |-> fund_holdings,
                    entries |-> << << fund_name, Len(fund_holdings),
                                     done.total_value >> >>,
                    raised |-> TopHoldingRaises(name, fund_holdings),
                    slept |-> ~TopHoldingRaises(name, fund_holdings) ]

\* Slip: the loop is left when a fund raises.
NextFund_Abort(i, raised, n) == IF raised THEN n + 1 ELSE i + 1

\* The loop goes on with the next fund, after 'continue' as after the body.
NextFund(i, raised, n) == i + 1

\* ----------------------------------------------------------- CSV loader

\* Rows of a file handed to parse_csv_file.
MaxFileRows == 2

\* Characters of a value cell drawn exhaustively.
MaxCellLen == 3

\* A cell of the DataFrame: a str, a number, or NaN.
Str(chars) == [t |-> "str", s |-> chars, n |-> 0]
Num(number) == [t |-> "num", s |-> << >>, n |-> number]
NaN == [t |-> "nan", s |-> << >>, n |-> 0]

\* A Python float as num * mult (mult is 1 or the magnitude multiplier).
Float(number, multiplier) == [num |-> number, mult |-> multiplier]

\* str.lower() on the column names and synonyms that occur.
Lower(name) ==
    CASE name = "Company" -> "company"
      [] name = "COMPANY" -> "company"
      [] name = "Name" -> "name"
      [] name = "Issuer" -> "issuer"
      [] name = "Ticker" -> "ticker"
      [] name = "Shares" -> "shares"
      [] name = "Value" -> "value"
      [] name = "Market Value" -> "market value"
      [] OTHER -> name

Roles == << "company", "ticker", "shares", "value", "weight" >>

\* column_mappings
column_mappings(field) ==
    CASE field = "company" ->
            << "company", "issuer", "issuer name", "security name", "name" >>
      [] field = "ticker" ->
            << "ticker", "symbol", "sym", "stock symbol", "security symbol" >>
      [] field = "shares" ->
            << "shares", "quantity", "shares held", "position", "shares owned" >>
      [] field = "value" ->
            << "value", "market value", "fair value", "position value",
               "market cap", "value ($000)", "value (000s)" >>
      [] field = "weight" ->
            << "weight", "percent", "%", "portfolio %", "% of portfolio",
               "allocation" >>

\* list.index(x): the first place of x
IndexOf(seq, x) == CHOOSE i \in DOMAIN seq : seq[i] = x /\ \A j \in 1..(i - 1) : seq[j] # x

\* Slip: the first column of the file that carries any synonym of the field.
MatchColumn_ColumnOrder(columns, field) ==
    LET names == column_mappings(field)
        hits == { i \in DOMAIN columns :
                    \E k \in DOMAIN names : Lower(columns[i]) = Lower(names[k]) }
    IN  IF hits = {} THEN 0 ELSE CHOOSE i \in hits : \A l \in hits : i <= l

\* The column matched to a field: the first synonym of the field's list that
\* is a lower-cased column name, and the first column of that name; 0 if none.
MatchColumn(columns, field) ==
    LET df_columns_lower == [i \in DOMAIN columns |-> Lower(columns[i])]
        names == column_mappings(field)
        hits == { k \in DOMAIN names :
                    \E i \in DOMAIN columns : df_columns_lower[i] = Lower(names[k]) }
    IN  IF hits = {} THEN 0
        ELSE LET first == CHOOSE k \in hits : \A l \in hits : k <= l
             IN  IndexOf(df_columns_lower, Lower(names[first]))

MatchColumns(columns) ==
    [field \in { Roles[i] : i \in DOMAIN Roles } |-> MatchColumn(columns, field)]

\* row.get(matched_columns.get(field, ''), default)
RowGet(row, mc, field, default) ==
    IF mc[field] = 0 THEN default ELSE row[mc[field]]

\* str.strip()
RECURSIVE LStrip(_)
LStrip(chars) ==
    IF chars # << >> /\ chars[1] = " " THEN LStrip(Tail(chars)) ELSE chars

RECURSIVE RStrip(_)
RStrip(chars) ==
    IF chars # << >> /\ chars[Len(chars)] = " "
    THEN RStrip(SubSeq(chars, 1, Len(chars) - 1)) ELSE chars

Strip(chars) == RStrip(LStrip(chars))

\* str.replace(c, '') for each character c of the set
Remove(chars, set) == SelectSeq(chars, LAMBDA c : c \notin set)

\* str.upper() on the characters that occur
UpperChar(c) == CASE c = "k" -> "K" [] c = "x" -> "X" [] OTHER -> c

Upper(chars) == [i \in DOMAIN chars |-> UpperChar(chars[i])]

Contains(chars, c) == \E i \in DOMAIN chars : chars[i] = c

Digits == { "0", "1", "2", "3", "4", "5" }

DigitValue(c) ==
    CASE c = "0" -> 0 [] c = "1" -> 1 [] c = "2" -> 2 [] c = "3" -> 3
      [] c = "4" -> 4 [] c = "5" -> 5

RECURSIVE DigitsValue(_)
DigitsValue(chars) ==
    IF chars = << >> THEN 0
    ELSE 10 * DigitsValue(SubSeq(chars, 1, Len(chars) - 1))
            + DigitValue(chars[Len(chars)])

AllDigits(chars) == chars # << >> /\ \A i \in DOMAIN chars : chars[i] \in Digits

\* float(chars) succeeds: an optional minus sign and digits.
FloatOK(chars) ==
    \/ AllDigits(chars)
    \/ chars # << >> /\ chars[1] = "-" /\ AllDigits(Tail(chars))

\* float(chars), when it succeeds
FloatOf(chars) ==
    IF chars[1] = "-" THEN 0 - DigitsValue(Tail(chars)) ELSE DigitsValue(chars)

\* Slip: the parentheses are left in the text.
ValueOfStr_KeepParens(chars) ==
    LET cleaned == Remove(chars, { "$", "," })
    IN  IF FloatOK(cleaned) THEN Float(FloatOf(cleaned), 1) ELSE Float(0, 1)

\* The value of a str cell: '$', ',', '(' and ')' removed, then K, M or B
\* found anywhere in the upper-cased text selects the multiplier and is
\* removed; a text float() rejects gives 0.
ValueOfStr(chars) ==
    LET cleaned == Remove(chars, { "$", ",", "(", ")" })
        upper == Upper(cleaned)
        body == IF Contains(upper, "K") THEN Remove(upper, { "K" })
                ELSE IF Contains(upper, "M") THEN Remove(upper, { "M" })
                ELSE IF Contains(upper, "B") THEN Remove(upper, { "B" })
                ELSE cleaned
        multiplier == IF Contains(upper, "K") THEN 1000
                      ELSE IF Contains(upper, "M") THEN 1000000
                      ELSE IF Contains(upper, "B") THEN 1000000000
                      ELSE 1
    IN  IF FloatOK(body) THEN Float(FloatOf(body), multiplier) ELSE Float(0, 1)

\* value: a str is cleaned and converted, a number is taken, NaN gives 0.
ValueOf(cell) ==
    CASE cell.t = "str" -> ValueOfStr(cell.s)
      [] cell.t = "num" -> Float(cell.n, 1)
      [] cell.t = "nan" -> Float(0, 1)

\* shares: ',' removed from a str, a number is taken, NaN and a str that
\* float() rejects give 0.
SharesOf(cell) ==
    CASE cell.t = "str" ->
            LET cleaned == Remove(cell.s, { "," })
            IN  IF FloatOK(cleaned) THEN FloatOf(cleaned) ELSE 0
      [] cell.t = "num" -> cell.n
      [] cell.t = "nan" -> 0

\* x.strip() raises AttributeError unless x is a str.
StripRaises(cell) == cell.t # "str"

\* The fund name made from the file name (extension dropped, '_' to ' ',
\* title case), for the file names that occur.
FundNameOf(filename) ==
    CASE filename = "baker_bros.csv" -> "Baker Bros"
      [] OTHER -> filename

\* if company and (value > 0 or shares > 0)
IsAccepted(company, value, shares) ==
    company # << >> /\ (value.num > 0 \/ shares > 0)

\* The body of the row loop: raises (the row's except clause then runs
\* continue), or decides whether the row is appended, and as what.
ParseRow(row, mc, fund_name) ==
    LET company_cell == RowGet(row, mc, "company", Str(<< >>))
        ticker_cell == RowGet(row, mc, "ticker", Str(<< >>))
        raises == StripRaises(company_cell) \/ StripRaises(ticker_cell)
        company == Strip(company_cell.s)
        ticker == Strip(ticker_cell.s)
        value == ValueOf(RowGet(row, mc, "value", Num(0)))
        shares == SharesOf(RowGet(row, mc, "shares", Num(0)))
    IN  [ raises |-> raises,
          accepted |-> ~raises /\ IsAccepted(company, value, shares),
          holding |-> [ fund_name |-> fund_name, company |-> company,
                        ticker |-> ticker, shares |-> shares, value |-> value ] ]

\* Slip: the snapshot is started afresh by the row.
AppendHolding_Replace(data, holding) == << holding >>

\* self.holdings_data.append({...})
AppendHolding(data, holding) == Append(data, holding)

\* Slip: a row that raises ends the loop.
NextRowAfterError_Abort(i, n) == n + 1

\* except Exception: continue
NextRowAfterError(i, n) == i + 1

\* ---- files

\* The text of an empty cell.
Empty == << >>

\* pd.read_csv: an empty cell is NaN; a column whose other cells are all
\* numbers holds numbers, any other column holds the texts as str.
IsNumericColumn(rows, c) ==
    \A r \in DOMAIN rows : rows[r][c] = Empty \/ FloatOK(rows[r][c])

read_csv(rows) ==
    [ r \in DOMAIN rows |->
        [ c \in DOMAIN rows[r] |->
            IF rows[r][c] = Empty THEN NaN
            ELSE IF IsNumericColumn(rows, c) THEN Num(FloatOf(rows[r][c]))
            ELSE Str(rows[r][c]) ] ]

CompanyCells == { <<"X">> }
IssuerCells == { <<"X">>, <<" ">>, Empty }
TickerCells == { <<"X", "T">>, Empty }
SharesCells == { <<"0">>, <<"1", "0">>, <<"-", "5">> }
ValueCells == { <<"1", "0", "0">>, <<"-", "5", "0", "0">>, <<"x">> }
NameCells == { <<"N">> }
UpperCompanyCells == { <<"X">>, Empty }
MarketValueCells == { <<"1", "0", "0">>, <<"-", "5", "0", "0">>, Empty, <<"x">> }

\* The column layouts of the files, and the cells each column may hold.
FullLayout == << "Company", "Ticker", "Shares", "Value" >>
IssuerLayout == << "Issuer", "Market Value" >>
NoCompanyLayout == << "Ticker", "Value" >>
SynonymLayout == << "Name", "COMPANY", "Value" >>

CellsOf(column) ==
    CASE column = "Company" -> CompanyCells
      [] column = "Issuer" -> IssuerCells
      [] column = "Ticker" -> TickerCells
      [] column = "Shares" -> SharesCells
      [] column = "Value" -> ValueCells
      [] column = "Market Value" -> MarketValueCells
      [] column = "Name" -> NameCells
      [] column = "COMPANY" -> UpperCompanyCells

RowsOfLayout(columns) ==
    { row \in [DOMAIN columns -> UNION { CellsOf(columns[i]) : i \in DOMAIN columns }] :
        \A i \in DOMAIN columns : row[i] \in CellsOf(columns[i]) }

File(readable, columns, rows) ==
    [ name |-> "baker_bros.csv", readable |-> readable,
      columns |-> columns, rows |-> rows ]

\* The characters of the value texts drawn exhaustively.
ValueAlphabet == { "0", "1", "$", ",", "(", "K", "M", "B", "k", "-" }

\* Value texts of the specification and of 13F reports.
QuotedValueTexts ==
    { << "$", "1", ",", "2", "0", "0", "K" >>,
      << "$", "1", ",", "2", "0", "0" >>,
      << "(", "5", "0", "0", ")" >>,
      << "$", "1", ",", "2", "3", "4" >> }

ValueTexts ==
    QuotedValueTexts \cup UNION { [1..n -> ValueAlphabet] : n \in 0..MaxCellLen }

NoFile == File(FALSE, << >>, << >>)

LoaderIdle ==
    /\ csv_file = NoFile
    /\ lpc = "idle"
    /\ matched_columns = MatchColumns(<< >>)
    /\ row_i = 0
    /\ holdings_count = 0
    /\ holdings_data = << >>
    /\ returned = -1

\* No process_all_csv_files call is under way.
BatchIdle ==
    /\ pending = << >>
    /\ total_processed = 0

\* analyze_new_buys_sells has not computed its sets.
DiffIdle ==
    /\ new_buys_keys = {}
    /\ new_sells_keys = {}

\* No fetch script is running.
FetchIdle ==
    /\ fscript = "none"
    /\ fpc = "idle"
    /\ fund_i = 0
    /\ all_holdings = << >>
    /\ successful_funds = << >>
    /\ responses = << >>
    /\ events = << >>

\* The classifier has not been started.
ClassifierIdle ==
    /\ q1_2025 = << >>
    /\ q4_2024 = << >>
    /\ script = "none"
    /\ pc = "start"
    /\ q1_positions = << >>
    /\ q4_positions = << >>
    /\ new_buys = << >>
    /\ position_exits = << >>
    /\ position_increases = << >>
    /\ position_decreases = << >>
    /\ new_buys_detailed = << >>
    /\ increases_detailed = << >>
    /\ exits_detailed = << >>
    /\ decreases_detailed = << >>

\* ----------------------------------------------------------------- actions

\* The files on disk when a script starts: any two files of at most MaxRows
\* rows together, or one file of at most MaxRows rows given as both quarters.
Init ==
    /\ \/ \E n \in 0..MaxRows :
            \E m \in 0..(MaxRows - n) :
               /\ q4_2024 \in [1..n -> PriorRows]
               /\ q1_2025 \in [1..m -> CurrentRows]
       \/ \E n \in 0..MaxRows :
            /\ q4_2024 \in [1..n -> PriorRows \cap CurrentRows]
            /\ q1_2025 = q4_2024
    /\ script = "none"
    /\ pc = "start"
    /\ q1_positions = << >>
    /\ q4_positions = << >>
    /\ new_buys = << >>
    /\ position_exits = << >>
    /\ position_increases = << >>
    /\ position_decreases = << >>
    /\ new_buys_detailed = << >>
    /\ increases_detailed = << >>
    /\ exits_detailed = << >>
    /\ decreases_detailed = << >>
    /\ LoaderIdle
    /\ BatchIdle
    /\ FetchIdle
    /\ DiffIdle

BuildIndex(name) ==
    /\ pc = "start"
    /\ script' = name
    /\ q1_positions' = BuildPositions(q1_2025)
    /\ q4_positions' = BuildPositions(q4_2024)
    /\ pc' = "indexed"
    /\ UNCHANGED << q1_2025, q4_2024, new_buys, position_exits,
                    position_increases, position_decreases, aggVars, loaderVars, batchVars, fetchVars,
                    diffVars >>

\* analyze_buys_sells_increases: the two dict-building loops
ABSI_BuildIndex == BuildIndex("analyze_buys_sells_increases")

\* analyze_buys_sells_increases: new buys, exits, increases and decreases
ABSI_Classify ==
    /\ pc = "indexed"
    /\ script = "analyze_buys_sells_increases"
    /\ new_buys' = NewBuys(q1_positions, q4_positions)
    /\ position_exits' = PositionExits(q1_positions, q4_positions)
    /\ position_increases' = PositionIncreases(q1_positions, q4_positions)
    /\ position_decreases' = PositionDecreases(q1_positions, q4_positions)
    /\ pc' = "classified"
    /\ UNCHANGED << q1_2025, q4_2024, script, q1_positions, q4_positions,
                    aggVars, loaderVars, batchVars, fetchVars,
                    diffVars >>

\* perform_position_changes_analysis: the two dict-building loops
PPCA_BuildIndex == BuildIndex("perform_position_changes_analysis")

\* perform_position_changes_analysis: new buys, exits and increases only
PPCA_Classify ==
    /\ pc = "indexed"
    /\ script = "perform_position_changes_analysis"
    /\ new_buys' = NewBuys(q1_positions, q4_positions)
    /\ position_exits' = PositionExits(q1_positions, q4_positions)
    /\ position_increases' = PositionIncreases(q1_positions, q4_positions)
    /\ pc' = "classified"
    /\ UNCHANGED << q1_2025, q4_2024, script, q1_positions, q4_positions,
                    position_decreases, aggVars, loaderVars, batchVars, fetchVars,
                    diffVars >>

\* perform_enhanced_position_changes_analysis: the two dict-building loops
PEPCA_BuildIndex == BuildIndex("perform_enhanced_position_changes_analysis")

\* perform_enhanced_position_changes_analysis: new buys, exits and increases only
PEPCA_Classify ==
    /\ pc = "indexed"
    /\ script = "perform_enhanced_position_changes_analysis"
    /\ new_buys' = NewBuys(q1_positions, q4_positions)
    /\ position_exits' = PositionExits(q1_positions, q4_positions)
    /\ position_increases' = PositionIncreases(q1_positions, q4_positions)
    /\ pc' = "classified"
    /\ UNCHANGED << q1_2025, q4_2024, script, q1_positions, q4_positions,
                    position_decreases, aggVars, loaderVars, batchVars, fetchVars,
                    diffVars >>

\* analyze_buys_sells_increases: the four Counters and detailed analyses
ABSI_Aggregate ==
    /\ pc = "classified"
    /\ script = "analyze_buys_sells_increases"
    /\ new_buys_detailed' =
          create_detailed_analysis(new_buys, CompanyCounter(new_buys), "new_buys")
    /\ increases_detailed' =
          create_detailed_analysis(position_increases,
                                   CompanyCounter(position_increases), "increases")
    /\ exits_detailed' =
          create_detailed_analysis(position_exits,
                                   CompanyCounter(position_exits), "exits")
    /\ decreases_detailed' =
          create_detailed_analysis(position_decreases,
                                   CompanyCounter(position_decreases), "decreases")
    /\ pc' = "aggregated"
    /\ UNCHANGED << q1_2025, q4_2024, script, q1_positions, q4_positions,
                    new_buys, position_exits, position_increases,
                    position_decreases, loaderVars, batchVars, fetchVars,
                    diffVars >>

\* perform_enhanced_position_changes_analysis: the three enhanced summaries
PEPCA_Aggregate ==
    /\ pc = "classified"
    /\ script = "perform_enhanced_position_changes_analysis"
    /\ new_buys_detailed' = create_enhanced_summary(new_buys, "new_buys")
    /\ increases_detailed' = create_enhanced_summary(position_increases, "increases")
    /\ exits_detailed' = create_enhanced_summary(position_exits, "exits")
    /\ pc' = "aggregated"
    /\ UNCHANGED << q1_2025, q4_2024, script, q1_positions, q4_positions,
                    new_buys, position_exits, position_increases,
                    position_decreases, decreases_detailed, loaderVars, batchVars, fetchVars,
                    diffVars >>

\* analyze_new_buys_sells: the two key sets and their differences
ANBS_Diff ==
    /\ pc = "start"
    /\ script' = "analyze_new_buys_sells"
    /\ new_buys_keys' = new_buys_set(q1_2025, q4_2024)
    /\ new_sells_keys' = new_sells_set(q1_2025, q4_2024)
    /\ pc' = "diffed"
    /\ UNCHANGED << q1_2025, q4_2024, q1_positions, q4_positions, new_buys,
                    position_exits, position_increases, position_decreases,
                    aggVars, loaderVars, batchVars, fetchVars >>

Next ==
    \/ ANBS_Diff
    \/ ABSI_BuildIndex
    \/ ABSI_Classify
    \/ ABSI_Aggregate
    \/ PEPCA_Aggregate
    \/ PPCA_BuildIndex
    \/ PPCA_Classify
    \/ PEPCA_BuildIndex
    \/ PEPCA_Classify

Spec == Init /\ [][Next]_vars

\* ---------------------------------------------------- actions of the loader

\* A fresh CSV13FAnalyzer and the file it is asked to parse: a file that
\* cannot be read, a file of at most MaxFileRows rows in one of the column
\* layouts, or a one-row file whose value cell is any of the value texts.
InitLoader ==
    /\ \/ csv_file = NoFile
       \/ \E columns \in { FullLayout, IssuerLayout, NoCompanyLayout,
                            SynonymLayout } :
            \E n \in 0..MaxFileRows :
               \E rows \in [1..n -> RowsOfLayout(columns)] :
                  csv_file = File(TRUE, columns, rows)
       \/ \E text \in ValueTexts :
            csv_file = File(TRUE, IssuerLayout, << << <<"X">>, text >> >>)
    /\ lpc = "idle"
    /\ matched_columns = MatchColumns(<< >>)
    /\ row_i = 0
    /\ holdings_count = 0
    /\ holdings_data = << >>
    /\ returned = -1
    /\ ClassifierIdle
    /\ BatchIdle
    /\ FetchIdle
    /\ DiffIdle

\* parse_csv_file: the file is read and its columns are matched
ParseOpen ==
    /\ lpc = "idle"
    /\ csv_file.readable
    /\ matched_columns' = MatchColumns(csv_file.columns)
    /\ holdings_count' = 0
    /\ row_i' = 1
    /\ lpc' = "rows"
    /\ UNCHANGED << csv_file, holdings_data, returned, classVars, aggVars, batchVars,
                    fetchVars,
                    diffVars >>

\* parse_csv_file: reading the file raises, the outer except returns 0
ParseUnreadable ==
    /\ lpc = "idle"
    /\ ~csv_file.readable
    /\ returned' = 0
    /\ lpc' = "returned"
    /\ UNCHANGED << csv_file, matched_columns, row_i, holdings_count,
                    holdings_data, classVars, aggVars, batchVars,
                    fetchVars,
                    diffVars >>

\* parse_csv_file: one pass of the row loop
ParseRowStep ==
    /\ lpc = "rows"
    /\ row_i <= Len(csv_file.rows)
    /\ LET r == ParseRow(read_csv(csv_file.rows)[row_i], matched_columns,
                         FundNameOf(csv_file.name))
       IN  IF r.raises
           THEN /\ row_i' = NextRowAfterError(row_i, Len(csv_file.rows))
                /\ UNCHANGED << holdings_data, holdings_count >>
           ELSE /\ row_i' = row_i + 1
                /\ IF r.accepted
                   THEN /\ holdings_data' = AppendHolding(holdings_data, r.holding)
                        /\ holdings_count' = holdings_count + 1
                   ELSE UNCHANGED << holdings_data, holdings_count >>
    /\ UNCHANGED << csv_file, lpc, matched_columns, returned, classVars, aggVars, batchVars,
                    fetchVars,
                    diffVars >>

\* parse_csv_file: return holdings_count
ParseReturn ==
    /\ lpc = "rows"
    /\ row_i > Len(csv_file.rows)
    /\ returned' = holdings_count
    /\ lpc' = "returned"
    /\ UNCHANGED << csv_file, matched_columns, row_i, holdings_count,
                    holdings_data, classVars, aggVars, batchVars,
                    fetchVars,
                    diffVars >>

NextLoader ==
    \/ ParseOpen
    \/ ParseUnreadable
    \/ ParseRowStep
    \/ ParseReturn

SpecLoader == InitLoader /\ [][NextLoader]_vars

\* ------------------------------------ actions of process_all_csv_files

\* Files of one call of process_all_csv_files.
MaxFiles == 2

\* The files find_csv_files may return: one that cannot be read, and the
\* one-row files with the columns Issuer and Market Value.
SmallFiles ==
    { NoFile } \cup { File(TRUE, IssuerLayout, << row >>) :
                         row \in RowsOfLayout(IssuerLayout) }

\* A fresh CSV13FAnalyzer whose process_all_csv_files is called on at most
\* MaxFiles files.
InitLoads ==
    /\ \E n \in 0..MaxFiles : pending \in [1..n -> SmallFiles]
    /\ total_processed = 0
    /\ csv_file = NoFile
    /\ lpc = "batch"
    /\ matched_columns = MatchColumns(<< >>)
    /\ row_i = 0
    /\ holdings_count = 0
    /\ holdings_data = << >>
    /\ returned = -1
    /\ ClassifierIdle
    /\ FetchIdle
    /\ DiffIdle

\* process_all_csv_files: parse_csv_file is called on the next file
ProcessNextFile ==
    /\ lpc = "batch"
    /\ pending # << >>
    /\ csv_file' = Head(pending)
    /\ pending' = Tail(pending)
    /\ lpc' = "idle"
    /\ matched_columns' = MatchColumns(<< >>)
    /\ row_i' = 0
    /\ holdings_count' = 0
    /\ returned' = -1
    /\ UNCHANGED << holdings_data, total_processed, classVars, aggVars,
                    fetchVars,
                    diffVars >>

\* process_all_csv_files: total_processed += processed
ProcessAdd ==
    /\ lpc = "returned"
    /\ total_processed' = total_processed + returned
    /\ lpc' = "batch"
    /\ UNCHANGED << csv_file, matched_columns, row_i, holdings_count,
                    holdings_data, returned, pending, classVars, aggVars,
                    fetchVars,
                    diffVars >>

\* process_all_csv_files: no file is left (or none was found), it returns
ProcessDone ==
    /\ lpc = "batch"
    /\ pending = << >>
    /\ lpc' = "done"
    /\ UNCHANGED << csv_file, matched_columns, row_i, holdings_count,
                    holdings_data, returned, batchVars, classVars, aggVars,
                    fetchVars,
                    diffVars >>

NextLoads ==
    \/ ProcessNextFile
    \/ ParseOpen
    \/ ParseUnreadable
    \/ ParseRowStep
    \/ ParseReturn
    \/ ProcessAdd
    \/ ProcessDone

SpecLoads == InitLoads /\ [][NextLoads]_vars

\* ------------------------------------------------ actions of the fetch loop

\* get_all_hedge_funds_13f or get_all_hedge_funds_q4_2024 is entered.
InitFetch ==
    /\ fscript \in { "all_funds_scraper", "get_q4_2024_data" }
    /\ fpc = "loop"
    /\ fund_i = 1
    /\ all_holdings = << >>
    /\ successful_funds = << >>
    /\ responses = << >>
    /\ events = << >>
    /\ ClassifierIdle
    /\ LoaderIdle
    /\ BatchIdle
    /\ DiffIdle

\* One pass of 'for fund_name, cik in hedge_funds.items()'
FetchFund ==
    /\ fpc = "loop"
    /\ fund_i <= Len(hedge_funds)
    /\ \E response \in Responses :
          LET r == FetchOne(fscript, hedge_funds[fund_i], response)
          IN  /\ all_holdings' = all_holdings \o r.rows
              /\ successful_funds' = successful_funds \o r.entries
              /\ responses' = Append(responses, response)
              /\ events' = IF r.slept
                           THEN events \o << hedge_funds[fund_i], "sleep" >>
                           ELSE Append(events, hedge_funds[fund_i])
              /\ fund_i' = NextFund(fund_i, r.raised, Len(hedge_funds))
    /\ UNCHANGED << fscript, fpc, classVars, aggVars, loaderVars, batchVars,
                    diffVars >>

\* return all_holdings, successful_funds
FetchReturn ==
    /\ fpc = "loop"
    /\ fund_i > Len(hedge_funds)
    /\ fpc' = "returned"
    /\ UNCHANGED << fscript, fund_i, all_holdings, successful_funds, responses,
                    events, classVars, aggVars, loaderVars, batchVars,
                    diffVars >>

NextFetch ==
    \/ FetchFund
    \/ FetchReturn

SpecFetch == InitFetch /\ [][NextFetch]_vars

\* Each pass ends (requests.get has timeout=20), so the loop keeps going.
SpecFetchFair == SpecFetch /\ WF_vars(NextFetch)


\* ------------------------------------------------- vocabulary of the claims

\* The (fund_name, company) key of a row or of an emitted record.
PairKey(r) == << r.fund_name, r.company >>

KeysOf(df) == { PairKey(df[i]) : i \in DOMAIN df }

RowsOf(df, k) == { i \in DOMAIN df : PairKey(df[i]) = k }

\* The key has exactly one row in the file.
Single(df, k) == Cardinality(RowsOf(df, k)) = 1

ValueIn(df, k) == df[CHOOSE i \in RowsOf(df, k) : TRUE].value

\* The values the file lists for the key.
ValuesIn(df, k) == { df[i].value : i \in RowsOf(df, k) }

\* Records of a result list that carry the key.
Recs(list, k) == { i \in DOMAIN list : PairKey(list[i]) = k }

Count(list, k) == Cardinality(Recs(list, k))

\* The key's entry in a position dict.
Indexed(d, k) == \E i \in DOMAIN d : PairKey(d[i].val) = k

IndexedValue(d, k) == d[CHOOSE i \in DOMAIN d : PairKey(d[i].val) = k].val.value

Classified == pc = "classified"

\* The classification step of whichever entry point is running.
Classify == ABSI_Classify \/ PPCA_Classify \/ PEPCA_Classify

ClassifiedBy(name) == pc = "classified" /\ script = name

AllKeys == KeysOf(q1_2025) \cup KeysOf(q4_2024)

\* pct_change of (current, prior) compared with the 0.5 of the claims, in
\* exact arithmetic (prior > 0).
PctAboveHalf(current, prior) == 2 * (current - prior) > prior
PctEqualsHalf(current, prior) == 2 * (current - prior) = prior
PctBelowMinusHalf(current, prior) == 2 * (current - prior) < 0 - prior
PctEqualsMinusHalf(current, prior) == 2 * (current - prior) = 0 - prior

\* ------------------------------------------------------------------ claims

\* C1 (partition): after analyze_buys_sells_increases has classified, every
\* (fund_name, company) key of either file has at most one record over the
\* four lists new_buys, position_exits, position_increases and
\* position_decreases together (so it is in exactly one list or in none),
\* and every emitted record carries a key of one of the files.
C1_Partition ==
    ClassifiedBy("analyze_buys_sells_increases") =>
        /\ \A k \in AllKeys :
              Count(new_buys, k) + Count(position_exits, k)
                + Count(position_increases, k) + Count(position_decreases, k) <= 1
        /\ \A list \in { new_buys, position_exits,
                          position_increases, position_decreases } :
              \A i \in DOMAIN list : PairKey(list[i]) \in AllKeys

\* C1 witness: a run in which one key is reported as a new buy or an exit
\* and another key as an increase or a decrease.
C1_Witness ==
    /\ ClassifiedBy("analyze_buys_sells_increases")
    /\ \E k1, k2 \in AllKeys :
          /\ k1 # k2
          /\ Count(new_buys, k1) + Count(position_exits, k1) = 1
          /\ Count(position_increases, k2) + Count(position_decreases, k2) = 1

\* C2 (strict threshold): after analyze_buys_sells_increases has classified,
\* a key in both indexes with prior value > 0 has no Increased record when
\* pct_change is exactly 0.5 and has one when pct_change is above 0.5, and
\* has no Decreased record when pct_change is exactly -0.5.
C2_StrictThreshold ==
    ClassifiedBy("analyze_buys_sells_increases") =>
        \A k \in AllKeys :
            (Indexed(q1_positions, k) /\ Indexed(q4_positions, k)
               /\ IndexedValue(q4_positions, k) > 0) =>
                LET cur == IndexedValue(q1_positions, k)
                    pri == IndexedValue(q4_positions, k)
                IN  /\ PctEqualsHalf(cur, pri) => Count(position_increases, k) = 0
                    /\ PctAboveHalf(cur, pri) => Count(position_increases, k) = 1
                    /\ PctEqualsMinusHalf(cur, pri) => Count(position_decreases, k) = 0

\* C2 witness: prior 100 and current 150 for one key (pct_change = 0.5) and
\* nothing reported as increased.
C2_Witness ==
    /\ ClassifiedBy("analyze_buys_sells_increases")
    /\ \E k \in KeysOf(q1_2025) \cap KeysOf(q4_2024) :
          /\ Single(q1_2025, k) /\ Single(q4_2024, k)
          /\ ValueIn(q4_2024, k) = 100 /\ ValueIn(q1_2025, k) = 150
          /\ Count(position_increases, k) = 0

\* C3 (Increased rule): after analyze_buys_sells_increases has classified, a
\* key in both indexes with prior value > 0 and (current - prior) / prior >
\* 0.5 has exactly one Increased record, whose q4_value is the prior value,
\* whose q1_value and value are the current value, whose dollar_change is
\* current - prior and whose pct_change is (current - prior) / prior; for a
\* key with one row per file these are the values of those rows.
C3_IncreasedRule ==
    ClassifiedBy("analyze_buys_sells_increases") =>
        \A k \in AllKeys :
            (Indexed(q1_positions, k) /\ Indexed(q4_positions, k)
               /\ IndexedValue(q4_positions, k) > 0
               /\ PctAboveHalf(IndexedValue(q1_positions, k),
                               IndexedValue(q4_positions, k))) =>
                LET cur == IndexedValue(q1_positions, k)
                    pri == IndexedValue(q4_positions, k)
                IN  /\ Count(position_increases, k) = 1
                    /\ \A i \in Recs(position_increases, k) :
                          /\ position_increases[i].q4_value = pri
                          /\ position_increases[i].q1_value = cur
                          /\ position_increases[i].value = cur
                          /\ position_increases[i].dollar_change = cur - pri
                          /\ position_increases[i].pct_change.den > 0
                          /\ position_increases[i].pct_change.num * pri
                                = (cur - pri) * position_increases[i].pct_change.den
                    /\ (Single(q1_2025, k) /\ Single(q4_2024, k)) =>
                          /\ cur = ValueIn(q1_2025, k)
                          /\ pri = ValueIn(q4_2024, k)

\* C3 witness: prior 100 and current 160 for one key, reported as Increased
\* with dollar_change 60.
C3_Witness ==
    /\ ClassifiedBy("analyze_buys_sells_increases")
    /\ \E k \in KeysOf(q1_2025) \cap KeysOf(q4_2024) :
          /\ Single(q1_2025, k) /\ Single(q4_2024, k)
          /\ ValueIn(q4_2024, k) = 100 /\ ValueIn(q1_2025, k) = 160
          /\ \E i \in Recs(position_increases, k) :
                position_increases[i].dollar_change = 60

\* C4 (Decreased rule at every entry point): after any of the three entry
\* points has classified, a key in both indexes with prior value > 0 and
\* pct_change < -0.5 has exactly one Decreased record.
C4_DecreasedRuleEveryEntryPoint ==
    Classified =>
        \A k \in AllKeys :
            (Indexed(q1_positions, k) /\ Indexed(q4_positions, k)
               /\ IndexedValue(q4_positions, k) > 0
               /\ PctBelowMinusHalf(IndexedValue(q1_positions, k),
                                    IndexedValue(q4_positions, k))) =>
                Count(position_decreases, k) = 1

\* C5 (Opened rule): after any entry point has classified, a key of the
\* current file that is not in the prior file has exactly one new-buy
\* record, whose value is a value the current file lists for the key; a key
\* of the prior file has no new-buy record; and every new-buy record
\* carries a key of the current file.
C5_OpenedRule ==
    Classified =>
        /\ \A k \in KeysOf(q1_2025) \ KeysOf(q4_2024) :
              /\ Count(new_buys, k) = 1
              /\ \A i \in Recs(new_buys, k) :
                    new_buys[i].value \in ValuesIn(q1_2025, k)
        /\ \A k \in KeysOf(q4_2024) : Count(new_buys, k) = 0
        /\ \A i \in DOMAIN new_buys : PairKey(new_buys[i]) \in KeysOf(q1_2025)

\* C5 witness: prior = {}, current = {(B, X): 50}, and one new buy of value 50.
C5_Witness ==
    /\ Classified
    /\ q4_2024 = << >>
    /\ q1_2025 = << Row(<<"B">>, <<"X">>, 50) >>
    /\ Len(new_buys) = 1
    /\ new_buys[1].value = 50
    /\ PairKey(new_buys[1]) = << <<"B">>, <<"X">> >>

\* C6 (Closed rule): after any entry point has classified, a key of the
\* prior file that is not in the current file has exactly one exit record,
\* whose value is a value the prior file lists for the key; a key of the
\* current file has no exit record; and every exit record carries a key of
\* the prior file.
C6_ClosedRule ==
    Classified =>
        /\ \A k \in KeysOf(q4_2024) \ KeysOf(q1_2025) :
              /\ Count(position_exits, k) = 1
              /\ \A i \in Recs(position_exits, k) :
                    position_exits[i].value \in ValuesIn(q4_2024, k)
        /\ \A k \in KeysOf(q1_2025) : Count(position_exits, k) = 0
        /\ \A i \in DOMAIN position_exits :
              PairKey(position_exits[i]) \in KeysOf(q4_2024)

\* C6 witness: prior = {(A, X): 100}, current = {}, and one exit of value 100.
C6_Witness ==
    /\ Classified
    /\ q4_2024 = << Row(<<"A">>, <<"X">>, 100) >>
    /\ q1_2025 = << >>
    /\ Len(position_exits) = 1
    /\ position_exits[1].value = 100
    /\ PairKey(position_exits[1]) = << <<"A">>, <<"X">> >>

\* C7 (self-comparison): when both quarters are the same file, any entry
\* point emits no new buy, no exit, no increase and no decrease.
C7_SelfComparison ==
    (Classified /\ q1_2025 = q4_2024) =>
        /\ new_buys = << >>
        /\ position_exits = << >>
        /\ position_increases = << >>
        /\ position_decreases = << >>

\* C7 witness: analyze_buys_sells_increases has classified a file against
\* itself, the file holding a repeated key, a zero value and a positive one.
C7_Witness ==
    /\ ClassifiedBy("analyze_buys_sells_increases")
    /\ q1_2025 = q4_2024
    /\ \E k \in KeysOf(q1_2025) : Cardinality(RowsOf(q1_2025, k)) >= 2
    /\ \E i, j \in DOMAIN q1_2025 : q1_2025[i].value = 0 /\ q1_2025[j].value > 0

\* C8 (disjoint snapshots): when the two files share no key, an entry point
\* emits as many new buys as the current file has rows, as many exits as
\* the prior file has rows, and no increase or decrease.
C8_DisjointCounts ==
    (Classified /\ KeysOf(q1_2025) \cap KeysOf(q4_2024) = {}) =>
        /\ Len(new_buys) = Len(q1_2025)
        /\ Len(position_exits) = Len(q4_2024)
        /\ position_increases = << >>
        /\ position_decreases = << >>

Range(list) == { list[i] : i \in DOMAIN list }

\* The row orders of a file.
Perms(df) ==
    { [i \in DOMAIN df |-> df[f[i]]] :
        f \in { g \in [DOMAIN df -> DOMAIN df] :
                  \A a, b \in DOMAIN df : a # b => g[a] # g[b] } }

\* C9 (row-order independence): the sets of records that
\* analyze_buys_sells_increases has emitted are those it emits for every
\* other order of the rows of either file.
C9_RowOrderIndependence ==
    ClassifiedBy("analyze_buys_sells_increases") =>
        \A p1 \in Perms(q1_2025), p4 \in Perms(q4_2024) :
            LET a == BuildPositions(p1)
                b == BuildPositions(p4)
            IN  /\ Range(NewBuys(a, b)) = Range(new_buys)
                /\ Range(PositionExits(a, b)) = Range(position_exits)
                /\ Range(PositionIncreases(a, b)) = Range(position_increases)
                /\ Range(PositionDecreases(a, b)) = Range(position_decreases)

HasDuplicateKey(df) == \E k \in KeysOf(df) : Cardinality(RowsOf(df, k)) >= 2

\* C10 (duplicate key is a hard error): when a file holds two rows with the
\* same (fund_name, company) key, no entry point gets past building the
\* index: no index and no classification result is produced.
C10_DuplicateKeyIsHardError ==
    (HasDuplicateKey(q1_2025) \/ HasDuplicateKey(q4_2024)) => pc = "start"

\* C11 (empty snapshot is not an error): with an empty prior file a run is
\* not stopped before classification and emits one new buy per key of the
\* current file and nothing else; with an empty current file it emits one
\* exit per key of the prior file and nothing else; with both empty it
\* emits nothing.
C11_EmptySnapshot ==
    /\ ((q4_2024 = << >> \/ q1_2025 = << >>) /\ pc = "indexed")
          => ENABLED Classify
    /\ (Classified /\ q4_2024 = << >>) =>
          /\ \A k \in KeysOf(q1_2025) : Count(new_buys, k) = 1
          /\ Len(new_buys) = Cardinality(KeysOf(q1_2025))
          /\ position_exits = << >>
          /\ position_increases = << >>
          /\ position_decreases = << >>
    /\ (Classified /\ q1_2025 = << >>) =>
          /\ \A k \in KeysOf(q4_2024) : Count(position_exits, k) = 1
          /\ Len(position_exits) = Cardinality(KeysOf(q4_2024))
          /\ new_buys = << >>
          /\ position_increases = << >>
          /\ position_decreases = << >>

\* C11 witness: an empty prior file against a current file of two keys,
\* classified into two new buys.
C11_Witness ==
    /\ Classified
    /\ q4_2024 = << >>
    /\ Cardinality(KeysOf(q1_2025)) = 2
    /\ Len(new_buys) = 2

\* C19 (zero-prior guard): after any entry point has classified, a key in
\* both indexes whose prior value is 0 has neither an Increased nor a
\* Decreased record, whatever its current value; and a run holding such a
\* key is not stopped before classification.
C19_ZeroPriorGuard ==
    /\ Classified =>
          \A k \in AllKeys :
              (Indexed(q1_positions, k) /\ Indexed(q4_positions, k)
                 /\ IndexedValue(q4_positions, k) = 0) =>
                  /\ Count(position_increases, k) = 0
                  /\ Count(position_decreases, k) = 0
    /\ (pc = "indexed"
          /\ \E k \in AllKeys :
                /\ Indexed(q1_positions, k) /\ Indexed(q4_positions, k)
                /\ IndexedValue(q4_positions, k) = 0)
          => ENABLED Classify

\* C19 witness: a key with prior value 0 and current value 100 has been
\* classified by analyze_buys_sells_increases.
C19_Witness ==
    /\ ClassifiedBy("analyze_buys_sells_increases")
    /\ \E k \in KeysOf(q1_2025) \cap KeysOf(q4_2024) :
          /\ Single(q1_2025, k) /\ Single(q4_2024, k)
          /\ ValueIn(q4_2024, k) = 0 /\ ValueIn(q1_2025, k) = 100

\* The last row of the file that carries the key.
LastRow(df, k) ==
    df[CHOOSE i \in RowsOf(df, k) : \A j \in RowsOf(df, k) : j <= i]

\* The index holds one entry per key of the file, with the value and the
\* shares of the last row of that key, and no other entry.
LastWins(d, df) ==
    /\ \A k \in KeysOf(df) :
          /\ Cardinality({ i \in DOMAIN d : PairKey(d[i].val) = k }) = 1
          /\ \A i \in DOMAIN d :
                PairKey(d[i].val) = k =>
                    /\ d[i].val.value = LastRow(df, k).value
                    /\ d[i].val.shares = LastRow(df, k).shares
    /\ \A i \in DOMAIN d : PairKey(d[i].val) \in KeysOf(df)

\* C20 (last-wins index): once an entry point has built the indexes, each
\* holds exactly one entry per key of its file, with the value and shares of
\* the last row of that key; and every record emitted by classification
\* carries values of last rows only.
C20_LastWinsIndex ==
    /\ pc = "indexed" =>
          /\ LastWins(q1_positions, q1_2025)
          /\ LastWins(q4_positions, q4_2024)
    /\ Classified =>
          /\ \A i \in DOMAIN new_buys :
                new_buys[i].value = LastRow(q1_2025, PairKey(new_buys[i])).value
          /\ \A i \in DOMAIN position_exits :
                position_exits[i].value
                    = LastRow(q4_2024, PairKey(position_exits[i])).value
          /\ \A list \in { position_increases, position_decreases } :
                \A i \in DOMAIN list :
                    /\ list[i].q1_value = LastRow(q1_2025, PairKey(list[i])).value
                    /\ list[i].q4_value = LastRow(q4_2024, PairKey(list[i])).value

\* C20 witness: the current file lists one key twice with different values,
\* the last one is reported as an increase over the prior value.
C20_Witness ==
    /\ Classified
    /\ \E k \in KeysOf(q1_2025) :
          /\ Cardinality(ValuesIn(q1_2025, k)) = 2
          /\ Count(position_increases, k) = 1

Aggregated == pc = "aggregated"

AggregatedBy(name) == pc = "aggregated" /\ script = name

\* Adjacent entries are in (funds_count, total_value) descending order.
OrderedByCountThenValue(detailed) ==
    \A i \in 1..(Len(detailed) - 1) :
        \/ detailed[i].funds_count > detailed[i + 1].funds_count
        \/ /\ detailed[i].funds_count = detailed[i + 1].funds_count
           /\ detailed[i].total_value >= detailed[i + 1].total_value

\* C17 (aggregate ordering): each of the four aggregate lists that
\* analyze_buys_sells_increases returns is sorted by (funds_count,
\* total_value) descending.
C17_AggregateOrdering ==
    AggregatedBy("analyze_buys_sells_increases") =>
        /\ OrderedByCountThenValue(new_buys_detailed)
        /\ OrderedByCountThenValue(increases_detailed)
        /\ OrderedByCountThenValue(exits_detailed)
        /\ OrderedByCountThenValue(decreases_detailed)

\* Records of a list that carry the company.
OfCompany(list, company) == { i \in DOMAIN list : list[i].company = company }

\* The sum of f[i] over i in S.
RECURSIVE SumOver(_, _)
SumOver(S, f) ==
    IF S = {} THEN 0
    ELSE LET i == CHOOSE j \in S : TRUE
         IN  f[i] + SumOver(S \ {i}, f)

\* The ratio equals a / b.
RatioIs(r, a, b) == r.den > 0 /\ b > 0 /\ r.num * b = a * r.den

\* The entries of an aggregate list agree with the emitted records: count,
\* summed value and average position size per company, one entry per company.
ContentOf(detailed, list) ==
    /\ \A i \in DOMAIN detailed :
          LET S == OfCompany(list, detailed[i].company)
          IN  /\ S # {}
              /\ detailed[i].funds_count = Cardinality(S)
              /\ detailed[i].total_value = SumOver(S, [j \in DOMAIN list |-> list[j].value])
              /\ RatioIs(detailed[i].avg_position_size,
                         detailed[i].total_value, detailed[i].funds_count)
    /\ \A i, j \in DOMAIN detailed :
          detailed[i].company = detailed[j].company => i = j

\* The mean of the records' pct_change, all of denominator den, is
\* (sum of numerators) / (den * count).
MeanPctIs(r, S, list) ==
    \A den \in { list[i].pct_change.den : i \in S } :
        (\A i \in S : list[i].pct_change.den = den) =>
            RatioIs(r, SumOver(S, [j \in DOMAIN list |-> list[j].pct_change.num]),
                    den * Cardinality(S))

Loaded == lpc = "returned" /\ csv_file.readable

\* The DataFrame of the file being parsed.
Frame == read_csv(csv_file.rows)

\* The cell of row i in the column matched to a field (NaN stands for a
\* column that was not matched).
CellAt(i, field) ==
    IF MatchColumn(csv_file.columns, field) = 0 THEN NaN
    ELSE Frame[i][MatchColumn(csv_file.columns, field)]

\* Row i has a non-empty instrument identifier.
HasIdentifier(i) ==
    CellAt(i, "company").t = "str" /\ Strip(CellAt(i, "company").s) # << >>

\* The market value and the quantity of row i as the loader reads them.
MarketValue(i) == ValueOf(CellAt(i, "value")).num

Quantity(i) == SharesOf(CellAt(i, "shares"))

\* Row i satisfies the acceptance rule.
Acceptable(i) == HasIdentifier(i) /\ (Quantity(i) > 0 \/ MarketValue(i) > 0)

\* Parsing row i raises.
Raises(i) == ParseRow(Frame[i], MatchColumns(csv_file.columns), "").raises

\* The positions parse_csv_file appends for the first n rows, every row
\* handled on its own.
RECURSIVE HoldingsOfRows(_)
HoldingsOfRows(n) ==
    IF n = 0 THEN << >>
    ELSE LET r == ParseRow(Frame[n], MatchColumns(csv_file.columns),
                           FundNameOf(csv_file.name))
         IN  IF r.accepted THEN Append(HoldingsOfRows(n - 1), r.holding)
             ELSE HoldingsOfRows(n - 1)

\* The counts parse_csv_file hands to its caller: its return value.
ReportedCounts == { returned }

\* The file has one row whose value cell is the str text (a text that is
\* not a number by itself).
OneValueText(text) ==
    /\ csv_file.readable
    /\ csv_file.columns = IssuerLayout
    /\ Len(csv_file.rows) = 1
    /\ csv_file.rows[1] = << <<"X">>, text >>
    /\ text # Empty
    /\ ~FloatOK(text)

Suffixes == { "K", "M", "B" }

MultiplierOf(suffix) ==
    CASE suffix = "K" -> 1000 [] suffix = "M" -> 1000000 [] suffix = "B" -> 1000000000

\* The text once '$' and ',' are removed ends in K, M or B.
HasTrailingSuffix(text) ==
    LET cleaned == Remove(text, { "$", "," })
    IN  cleaned # << >> /\ UpperChar(cleaned[Len(cleaned)]) \in Suffixes

\* ------------------------------------------------------------------- C12

\* C12: parse_csv_file adds a row to the snapshot if and only if the row has
\* a non-empty instrument identifier and (quantity > 0 or market value > 0),
\* whatever its other cells (such as a missing ticker cell) contain: after
\* the load the snapshot holds exactly one position per such row.
C12_AcceptanceRule ==
    Loaded =>
        /\ Len(holdings_data) = Cardinality({ i \in DOMAIN csv_file.rows : Acceptable(i) })
        /\ \A i \in DOMAIN csv_file.rows :
              (HasIdentifier(i) /\ MarketValue(i) > 0) =>
                 \E j \in DOMAIN holdings_data :
                    holdings_data[j].company = Strip(CellAt(i, "company").s)

\* ------------------------------------------------------------------- C13

\* C13: every position parse_csv_file appends to holdings_data has
\* shares >= 0 and value >= 0.
C13_NonNegative ==
    \A j \in DOMAIN holdings_data :
        holdings_data[j].shares >= 0 /\ holdings_data[j].value.num >= 0

\* ------------------------------------------------------------------- C14

\* C14: a row that raises never aborts the load: while the rows are being
\* read the snapshot holds the positions of the accepted rows read so far,
\* and parse_csv_file returns only after every row has been read, with the
\* positions of all accepted rows, before and after a failing row, in the
\* snapshot and their number as its result.
C14_RowFailureIsolated ==
    /\ lpc = "rows" =>
          /\ row_i \in 1..(Len(csv_file.rows) + 1)
          /\ holdings_data = HoldingsOfRows(row_i - 1)
          /\ holdings_count = Len(holdings_data)
    /\ Loaded =>
          /\ row_i = Len(csv_file.rows) + 1
          /\ holdings_data = HoldingsOfRows(Len(csv_file.rows))
          /\ returned = Len(holdings_data)

\* The load of a two-row file has returned, its first row raised, and its
\* second row is in the snapshot.
C14_Witness ==
    /\ Loaded
    /\ Len(csv_file.rows) = 2
    /\ Raises(1)
    /\ ~Raises(2) /\ Acceptable(2)
    /\ Len(holdings_data) = 1
    /\ returned = 1

\* ------------------------------------------------------------------- C15

\* C15: after loading a file the loader reports to its caller the number of
\* rows it dropped, input rows minus accepted rows.
C15_DroppedRowsReported ==
    Loaded => (Len(csv_file.rows) - Len(holdings_data)) \in ReportedCounts

\* ------------------------------------------------------------------- C16

\* C16: a value text with a trailing K, M or B (after removing '$' and ',')
\* parses to its numeric part times 1e3, 1e6 or 1e9; a text without such a
\* trailing suffix is parsed with multiplier 1; "$1,200K" parses to
\* 1200 * 1000.
C16_TrailingSuffix ==
    LET text == csv_file.rows[1][2]
    IN  (Loaded /\ Len(csv_file.rows) = 1 /\ OneValueText(text)) =>
            LET cleaned == Remove(text, { "$", "," })
                body == SubSeq(cleaned, 1, Len(cleaned) - 1)
            IN  /\ (HasTrailingSuffix(text) /\ FloatOK(body) /\ FloatOf(body) > 0) =>
                      /\ Len(holdings_data) = 1
                      /\ holdings_data[1].value =
                            Float(FloatOf(body),
                                  MultiplierOf(UpperChar(cleaned[Len(cleaned)])))
                /\ ~HasTrailingSuffix(text) =>
                      \A j \in DOMAIN holdings_data : holdings_data[j].value.mult = 1
                /\ text = << "$", "1", ",", "2", "0", "0", "K" >> =>
                      /\ Len(holdings_data) = 1
                      /\ holdings_data[1].value = Float(1200, 1000)

\* ------------------------------------------------------------------- C21

\* A text without any digit: no reading of it is a number.
NoDigit(chars) == \A i \in DOMAIN chars : chars[i] \notin Digits

\* C21: a row whose value cell is a text that cannot be read as a number is
\* dropped, never accepted with a substituted number.
C21_UnparseableDropped ==
    (Loaded /\ Len(csv_file.rows) = 1
        /\ CellAt(1, "value").t = "str" /\ NoDigit(CellAt(1, "value").s))
      => holdings_data = << >>

\* ------------------------------------------------------------------- C22

Symbols == { "$", ",", "(", ")" }

\* C22: a value text made of digits and of '$', ',', '(' and ')' is parsed
\* as the number its digits spell, every symbol removed; "(500)" is parsed
\* as 500 and "$1,234" as 1234.
C22_SymbolsStripped ==
    LET text == csv_file.rows[1][2]
    IN  (Loaded /\ Len(csv_file.rows) = 1 /\ OneValueText(text)) =>
           /\ ((\A i \in DOMAIN text : text[i] \in Digits \cup Symbols)
                  /\ ~NoDigit(text)) =>
                 IF DigitsValue(Remove(text, Symbols)) > 0
                 THEN /\ Len(holdings_data) = 1
                      /\ holdings_data[1].value
                            = Float(DigitsValue(Remove(text, Symbols)), 1)
                 ELSE holdings_data = << >>
           /\ text = << "(", "5", "0", "0", ")" >> =>
                 /\ Len(holdings_data) = 1
                 /\ holdings_data[1].value = Float(500, 1)
           /\ text = << "$", "1", ",", "2", "3", "4" >> =>
                 /\ Len(holdings_data) = 1
                 /\ holdings_data[1].value = Float(1234, 1)

\* The file with the one value "(500)" has been loaded as the value 500.
C22_Witness ==
    /\ Loaded
    /\ OneValueText(<< "(", "5", "0", "0", ")" >>)
    /\ Len(holdings_data) = 1
    /\ holdings_data[1].value = Float(500, 1)

\* ------------------------------------------------------------------- C23

\* A column of the file carries the name, compared in lower case.
Present(name) ==
    \E i \in DOMAIN csv_file.columns : Lower(csv_file.columns[i]) = Lower(name)

\* C23: each role is matched to the column that carries the first synonym,
\* in the order of the role's list, that some column carries (compared in
\* lower case), and to no column when none does; an unmatched role reads as
\* empty or 0, and a file without a company column yields no position.
C23_ColumnInference ==
    /\ (lpc \in { "rows", "returned" } /\ csv_file.readable) =>
          \A r \in DOMAIN Roles :
              LET names == column_mappings(Roles[r])
                  c == matched_columns[Roles[r]]
              IN  IF \E k \in DOMAIN names : Present(names[k])
                  THEN /\ c \in DOMAIN csv_file.columns
                       /\ \E k \in DOMAIN names :
                             /\ Lower(csv_file.columns[c]) = Lower(names[k])
                             /\ \A j \in 1..(k - 1) : ~Present(names[j])
                  ELSE c = 0
    /\ Loaded =>
          /\ matched_columns["company"] = 0 => holdings_data = << >>
          /\ \A j \in DOMAIN holdings_data :
                /\ matched_columns["ticker"] = 0 => holdings_data[j].ticker = << >>
                /\ matched_columns["shares"] = 0 => holdings_data[j].shares = 0
                /\ matched_columns["value"] = 0
                      => holdings_data[j].value = Float(0, 1)

\* A file with the columns Name, COMPANY and Value has been loaded with
\* COMPANY as its company column, and a position was accepted.
C23_Witness ==
    /\ Loaded
    /\ csv_file.columns = SynonymLayout
    /\ matched_columns["company"] = 2
    /\ Len(holdings_data) >= 1

\* ------------------------------------------------------------------- C30

\* a is an initial part of b.
IsPrefix(a, b) == Len(a) <= Len(b) /\ SubSeq(b, 1, Len(a)) = a

\* The count of the parse_csv_file call under way, once it has one.
CountOfCall ==
    CASE lpc = "rows" -> holdings_count
      [] lpc = "returned" -> returned
      [] OTHER -> 0

\* C30: however many files one CSV13FAnalyzer loads, no step modifies,
\* reorders or removes a position already in holdings_data, and its length
\* is the sum of the counts returned so far plus the count of the call under
\* way (0 for a file that cannot be read).
C30_AppendOnly ==
    /\ [](Len(holdings_data) = total_processed + CountOfCall)
    /\ [][IsPrefix(holdings_data, holdings_data')]_vars

\* process_all_csv_files has returned after two files each added a position.
C30_Witness ==
    /\ lpc = "done"
    /\ total_processed = 2
    /\ Len(holdings_data) = 2
    /\ pending = << >>

\* ------------------------------------------------------------------- C24

\* The companies of the records of a list.
CompaniesOf(list) == { list[i].company : i \in DOMAIN list }

\* The list is in (funds_count, total_value) descending order, has at most
\* TopEnhanced entries, and leaves a company out only when TopEnhanced
\* companies are listed.
TopOrdered(detailed, list) ==
    /\ OrderedByCountThenValue(detailed)
    /\ Len(detailed) <= TopEnhanced
    /\ CompaniesOf(detailed) \subseteq CompaniesOf(list)
    /\ CompaniesOf(detailed) # CompaniesOf(list) => Len(detailed) = TopEnhanced

KeyString(k) == k[1] \o <<"|", "|">> \o k[2]

\* The increases the two files determine: the keys of both files whose last
\* prior value is positive and whose last current value is more than half
\* above it, with the dollar change and the prior value.
IncreasesOfFiles ==
    { << k, LastRow(q1_2025, k).value - LastRow(q4_2024, k).value,
         LastRow(q4_2024, k).value >> :
        k \in { h \in KeysOf(q1_2025) \cap KeysOf(q4_2024) :
                  /\ LastRow(q4_2024, h).value > 0
                  /\ 2 * (LastRow(q1_2025, h).value - LastRow(q4_2024, h).value)
                        > LastRow(q4_2024, h).value } }

\* C25: the new buys and the exits of the three dictionary diffs carry
\* exactly the keys of the set differences of analyze_new_buys_sells, and
\* the other way round; and whichever dictionary diff ran, its increases
\* are the ones the two files determine, with pct_change = dollar_change /
\* prior value.
C25_DiffsAgree ==
    /\ pc = "diffed" =>
          /\ new_buys_keys
                = { KeyString(k) : k \in KeysOf(q1_2025) \ KeysOf(q4_2024) }
          /\ new_sells_keys
                = { KeyString(k) : k \in KeysOf(q4_2024) \ KeysOf(q1_2025) }
    /\ Classified =>
          /\ { KeyString(PairKey(new_buys[i])) : i \in DOMAIN new_buys }
                = new_buys_set(q1_2025, q4_2024)
          /\ { KeyString(PairKey(position_exits[i])) : i \in DOMAIN position_exits }
                = new_sells_set(q1_2025, q4_2024)
          /\ { << PairKey(position_increases[i]),
                  position_increases[i].dollar_change,
                  position_increases[i].q4_value >> :
                    i \in DOMAIN position_increases } = IncreasesOfFiles
          /\ \A i \in DOMAIN position_increases :
                RatioIs(position_increases[i].pct_change,
                        position_increases[i].dollar_change,
                        position_increases[i].q4_value)

\* analyze_new_buys_sells has found a new buy and an exit in files of which
\* the current one lists a key twice.
C25_Witness ==
    /\ pc = "diffed"
    /\ new_buys_keys # {}
    /\ new_sells_keys # {}
    /\ HasDuplicateKey(q1_2025)

\* ------------------------------------------------------------------- C26

\* The value, shares, ticker and industry of a record are those of the last
\* row of its key in the file.
CarriedFrom(rec, df) ==
    /\ PairKey(rec) \in KeysOf(df)
    /\ rec.value = LastRow(df, PairKey(rec)).value
    /\ rec.shares = LastRow(df, PairKey(rec)).shares
    /\ rec.ticker = LastRow(df, PairKey(rec)).ticker
    /\ rec.industry = LastRow(df, PairKey(rec)).industry

\* C26: a new buy or an increase carries its fields from the current file,
\* an exit or a decrease from the prior file; the total_value of a
\* decreases aggregate sums prior values.
C26_CarriedFields ==
    /\ Classified =>
          /\ \A i \in DOMAIN new_buys : CarriedFrom(new_buys[i], q1_2025)
          /\ \A i \in DOMAIN position_increases :
                CarriedFrom(position_increases[i], q1_2025)
          /\ \A i \in DOMAIN position_exits :
                CarriedFrom(position_exits[i], q4_2024)
          /\ \A i \in DOMAIN position_decreases :
                /\ CarriedFrom(position_decreases[i], q4_2024)
                /\ position_decreases[i].value = position_decreases[i].q4_value
    /\ AggregatedBy("analyze_buys_sells_increases") =>
          \A i \in DOMAIN decreases_detailed :
              decreases_detailed[i].total_value
                 = SumOver(OfCompany(position_decreases, decreases_detailed[i].company),
                           [j \in DOMAIN position_decreases |->
                               position_decreases[j].q4_value])

\* A position that fell from 100 to 0 is aggregated with total_value 100.
C26_Witness ==
    /\ AggregatedBy("analyze_buys_sells_increases")
    /\ Len(position_decreases) = 1
    /\ position_decreases[1].q1_value = 0
    /\ position_decreases[1].value = 100
    /\ Len(decreases_detailed) = 1
    /\ decreases_detailed[1].total_value = 100

\* ---------------------------------------------- vocabulary of the fetch loop

\* The funds requested so far, in order.
Requests == SelectSeq(events, LAMBDA e : e # "sleep")

\* The rows of a fund in all_holdings, and where they are.
RowsOfFund(fund_name) == SelectSeq(all_holdings, LAMBDA h : h.fund_name = fund_name)

PlacesOfFund(fund_name) ==
    { i \in DOMAIN all_holdings : all_holdings[i].fund_name = fund_name }

\* The entries of a fund in successful_funds.
EntriesOfFund(fund_name) == SelectSeq(successful_funds, LAMBDA e : e[1] = fund_name)

\* The holdings of the dict items of a response to a fund.
DictHoldings(fund_name, response) ==
    LET dicts == SelectSeq(response.items, LAMBDA item : item.kind = "dict")
    IN  [i \in DOMAIN dicts |-> HoldingOf(fund_name, dicts[i])]

\* ------------------------------------------------------------------- C27

\* C27: a delay is performed between any two consecutive requests, whatever
\* the outcome of the earlier one: no request follows a request directly.
C27_DelayBetweenRequests ==
    \A j \in 1..(Len(events) - 1) :
        events[j] # "sleep" => events[j + 1] = "sleep"

\* ------------------------------------------------------------------- C28

\* C28: the funds requested so far are the first funds of the table, once
\* each and in its order, whatever the earlier requests met; the loop ends
\* and the function returns with every fund requested.
C28_EveryFundOnce ==
    /\ [](/\ fund_i \in 1..(Len(hedge_funds) + 1)
          /\ Requests = SubSeq(hedge_funds, 1, fund_i - 1)
          /\ Len(responses) = fund_i - 1
          /\ fpc = "returned" => Requests = hedge_funds)
    /\ <>(fpc = "returned")

\* The function has returned after the request of the first fund raised and
\* the second fund was fetched with rows.
C28_Witness ==
    /\ fpc = "returned"
    /\ fscript = "all_funds_scraper"
    /\ responses[1].kind = "raises"
    /\ Requests = hedge_funds
    /\ Len(successful_funds) = 1
    /\ successful_funds[1][1] = hedge_funds[2]

\* ------------------------------------------------------------------- C29

\* C29: for each fund requested, either all the dict items of its response
\* are rows of all_holdings, contiguous and by value descending, or none is;
\* the fund has an entry in successful_funds exactly when it has rows; the
\* entry's count is at least 1 and is the number of its rows, its total the
\* sum of their values; the counts add up to len(all_holdings).
C29_PerFundAtomic ==
    /\ \A j \in DOMAIN responses :
          LET fund_name == hedge_funds[j]
              rows == RowsOfFund(fund_name)
              places == PlacesOfFund(fund_name)
              entries == EntriesOfFund(fund_name)
          IN  /\ \/ rows = << >>
                 \/ /\ rows = SortByValue(DictHoldings(fund_name, responses[j]))
                    /\ \A a, b \in places : \A c \in a..b : c \in places
              /\ (entries # << >>) <=> (rows # << >>)
              /\ Len(entries) <= 1
              /\ \A e \in DOMAIN entries :
                    /\ entries[e][2] >= 1
                    /\ entries[e][2] = Len(rows)
                    /\ entries[e][3]
                          = SumOver(DOMAIN rows, [i \in DOMAIN rows |-> rows[i].value])
    /\ SumOver(DOMAIN successful_funds,
               [i \in DOMAIN successful_funds |-> successful_funds[i][2]])
          = Len(all_holdings)

====
